--------------------------- MODULE Spec2Model ---------------------------
(***************************************************************************)
(* Model of the GLTF brain viewer: the component GltfBrainModel            *)
(* (src/src/components/GltfBrainModel.jsx) over the region catalog of      *)
(* src/src/data/brainStructure.js.                                         *)
(*                                                                         *)
(* Numbers.  The program computes in IEEE doubles; the model computes the  *)
(* same expressions exactly, over the rationals:                           *)
(*   - canonical coordinates (catalog positions, thresholds, normalized    *)
(*     geometry) are counted in tenths of a unit, [0, 0.2, -1.8] is        *)
(*     <<0, 2, -18>>;                                                      *)
(*   - the display scale is counted in hundredths, 4.2 is 420;             *)
(*   - a world-space point is counted in thousandths (tenths x hundredths);*)
(*   - a quotient is kept as a record [num, den] (a vector of numerators   *)
(*     over one positive denominator) and two distances are compared by    *)
(*     their squares, cross-multiplied, so no rounding is introduced.      *)
(* Strings are atomic in TLA+; StrChars gives the characters of every      *)
(* string the model uses, so that toLowerCase, includes, replace and split *)
(* are computed on characters.                                             *)
(*                                                                         *)
(* Geometry.  An asset is the list of meshes scene.traverse visits, each   *)
(* a name and a list of vertices with the node's world matrix already      *)
(* applied; nodes that are not meshes, faces and materials are left out.   *)
(* The raycaster is not modelled: a pointer-move carries any point of      *)
(* SurfacePoints, a set of points of the canonical box [-2, 2]^3, seen in   *)
(* world space through the scale of the rendered group.                    *)
(*                                                                         *)
(* Catalog.  Spec runs the component over the shipped catalog.             *)
(* SpecCatalogs also runs it over FixtureCatalog, a test catalog in which  *)
(* two regions share an anchor and an anchor lies beyond the spatial-match *)
(* threshold of a primitive, cases the shipped catalog cannot produce.     *)
(*                                                                         *)
(* Inputs.  All specifications share the actions; they differ in the pools *)
(* the environment draws windows, assets, points and props from (see       *)
(* "Input pools"): Spec and SpecCatalogs exercise the pointer and the      *)
(* props over a few assets, SpecLoading and SpecLoadingCatalogs the loads  *)
(* over every asset of the bounds, SpecViewports the window sizes,         *)
(* SpecNames the mesh names.                                               *)
(***************************************************************************)
EXTENDS Integers, Sequences, FiniteSets, TLC

VARIABLES
  catalog,         \* which catalog brainStructure.js exports: a key of CatalogData
  inputs,          \* which pools the environment draws its inputs from
  window,          \* [innerWidth, innerHeight] of the browser window
  mounted,         \* the component has committed its first render
  scene,           \* the asset useGLTF returned last (raw primitives)
  meshes,          \* state `meshes`: the normalized primitives
  meshRegionMap,   \* state `meshRegionMap`: region id per mesh (by index)
  modelLoaded,     \* state `modelLoaded`
  scale,           \* state `scale`, in hundredths
  hoveredRegion,   \* state `hoveredRegion`: a region id or Null
  cursor,          \* document.body.style.cursor
  lastPoint,       \* the last pointer-move event: canonical point and e.point
  selectedRegion,  \* prop `selectedRegion`: a region id or Null
  clickEvent,      \* the onRegionClick calls made by the event handled last
  appSelectedRegion,   \* App state `selectedRegion`: a region object or NoRegion
  selectedMainRegion,  \* App state `selectedMainRegion`: a region id or Null
  showSubparts,        \* App state `showSubparts`
  isInfoPanelOpen,     \* App state `isInfoPanelOpen`
  timers,              \* pending setTimeout callbacks, oldest first
  relevantLinks,       \* App state `relevantLinks`: the links displayed
  loadingLinks,        \* App state `loadingLinks`
  fetches,             \* pending fetchRelevantLinks promises, by region id
  appEvent             \* the App event handled last

\* the state of GltfBrainModel and of its environment
componentVars == <<inputs, window, mounted, scene, meshes, meshRegionMap,
                   modelLoaded, scale, hoveredRegion, cursor, lastPoint,
                   selectedRegion, clickEvent>>

\* the state of App
appVars == <<appSelectedRegion, selectedMainRegion, showSubparts,
             isInfoPanelOpen, timers, relevantLinks, loadingLinks, fetches,
             appEvent>>

vars == <<catalog, inputs, window, mounted, scene, meshes, meshRegionMap,
          modelLoaded, scale, hoveredRegion, cursor, lastPoint,
          selectedRegion, clickEvent, appSelectedRegion, selectedMainRegion,
          showSubparts, isInfoPanelOpen, timers, relevantLinks, loadingLinks,
          fetches, appEvent>>

Null == "null"

(***************************************************************************)
(* Strings                                                                 *)
(***************************************************************************)
\* the characters of each string the model uses
StrChars ==
     "" :> <<>> @@
     "visual_network" :> <<"v", "i", "s", "u", "a", "l", "_", "n", "e", "t", "w", "o", "r", "k">> @@
     "Visual Network (VIS)" :> <<"V", "i", "s", "u", "a", "l", " ", "N", "e", "t", "w", "o", "r", "k", " ", "(", "V", "I", "S", ")">> @@
     "somatomotor_network" :> <<"s", "o", "m", "a", "t", "o", "m", "o", "t", "o", "r", "_", "n", "e", "t", "w", "o", "r", "k">> @@
     "Somatomotor Network (SMN)" :> <<"S", "o", "m", "a", "t", "o", "m", "o", "t", "o", "r", " ", "N", "e", "t", "w", "o", "r", "k", " ", "(", "S", "M", "N", ")">> @@
     "dorsal_attention_network" :> <<"d", "o", "r", "s", "a", "l", "_", "a", "t", "t", "e", "n", "t", "i", "o", "n", "_", "n", "e", "t", "w", "o", "r", "k">> @@
     "Dorsal Attention Network (DAN)" :> <<"D", "o", "r", "s", "a", "l", " ", "A", "t", "t", "e", "n", "t", "i", "o", "n", " ", "N", "e", "t", "w", "o", "r", "k", " ", "(", "D", "A", "N", ")">> @@
     "ventral_attention_network" :> <<"v", "e", "n", "t", "r", "a", "l", "_", "a", "t", "t", "e", "n", "t", "i", "o", "n", "_", "n", "e", "t", "w", "o", "r", "k">> @@
     "Ventral Attention / Salience (VAN)" :> <<"V", "e", "n", "t", "r", "a", "l", " ", "A", "t", "t", "e", "n", "t", "i", "o", "n", " ", "/", " ", "S", "a", "l", "i", "e", "n", "c", "e", " ", "(", "V", "A", "N", ")">> @@
     "limbic_network" :> <<"l", "i", "m", "b", "i", "c", "_", "n", "e", "t", "w", "o", "r", "k">> @@
     "Limbic Network (LIM)" :> <<"L", "i", "m", "b", "i", "c", " ", "N", "e", "t", "w", "o", "r", "k", " ", "(", "L", "I", "M", ")">> @@
     "frontoparietal_network" :> <<"f", "r", "o", "n", "t", "o", "p", "a", "r", "i", "e", "t", "a", "l", "_", "n", "e", "t", "w", "o", "r", "k">> @@
     "Frontoparietal Control (FPN)" :> <<"F", "r", "o", "n", "t", "o", "p", "a", "r", "i", "e", "t", "a", "l", " ", "C", "o", "n", "t", "r", "o", "l", " ", "(", "F", "P", "N", ")">> @@
     "default_mode_network" :> <<"d", "e", "f", "a", "u", "l", "t", "_", "m", "o", "d", "e", "_", "n", "e", "t", "w", "o", "r", "k">> @@
     "Default Mode Network (DMN)" :> <<"D", "e", "f", "a", "u", "l", "t", " ", "M", "o", "d", "e", " ", "N", "e", "t", "w", "o", "r", "k", " ", "(", "D", "M", "N", ")">> @@
     "alpha" :> <<"a", "l", "p", "h", "a">> @@
     "Alpha Area" :> <<"A", "l", "p", "h", "a", " ", "A", "r", "e", "a">> @@
     "beta" :> <<"b", "e", "t", "a">> @@
     "Limbic Beta" :> <<"L", "i", "m", "b", "i", "c", " ", "B", "e", "t", "a">> @@
     "gamma" :> <<"g", "a", "m", "m", "a">> @@
     "Gamma Zone" :> <<"G", "a", "m", "m", "a", " ", "Z", "o", "n", "e">> @@
     "alpha_core" :> <<"a", "l", "p", "h", "a", "_", "c", "o", "r", "e">> @@
     "Alpha Core" :> <<"A", "l", "p", "h", "a", " ", "C", "o", "r", "e">> @@
     "Mesh_001" :> <<"M", "e", "s", "h", "_", "0", "0", "1">> @@
     "Limbic_Lobe" :> <<"L", "i", "m", "b", "i", "c", "_", "L", "o", "b", "e">> @@
     "DefaultModeNetwork(DMN)" :> <<"D", "e", "f", "a", "u", "l", "t", "M", "o", "d", "e", "N", "e", "t", "w", "o", "r", "k", "(", "D", "M", "N", ")">> @@
     "ventral_visual" :> <<"v", "e", "n", "t", "r", "a", "l", "_", "v", "i", "s", "u", "a", "l">>

\* String.prototype.toLowerCase, per character
UpperToLower ==
     "A" :> "a" @@ "B" :> "b" @@ "C" :> "c" @@ "D" :> "d" @@ "E" :> "e" @@
     "F" :> "f" @@ "G" :> "g" @@ "H" :> "h" @@ "I" :> "i" @@ "J" :> "j" @@
     "K" :> "k" @@ "L" :> "l" @@ "M" :> "m" @@ "N" :> "n" @@ "O" :> "o" @@
     "P" :> "p" @@ "Q" :> "q" @@ "R" :> "r" @@ "S" :> "s" @@ "T" :> "t" @@
     "U" :> "u" @@ "V" :> "v" @@ "W" :> "w" @@ "X" :> "x" @@ "Y" :> "y" @@
     "Z" :> "z"

ToLowerCase(cs) ==
  [i \in 1..Len(cs) |-> IF cs[i] \in DOMAIN UpperToLower
                        THEN UpperToLower[cs[i]] ELSE cs[i]]

\* String.prototype.includes: needle occurs in hay as a contiguous run
Includes(hay, needle) ==
  \E i \in 1..(Len(hay) - Len(needle) + 1) :
     SubSeq(hay, i, i + Len(needle) - 1) = needle

IsNotSpace(c) == c # " "

\* s.replace(/\s+/g, ''): every run of whitespace removed
StripWhitespace(cs) == SelectSeq(cs, IsNotSpace)

\* s.split(' ')[0]: the characters before the first space
FirstWord(cs) ==
  IF \E i \in 1..Len(cs) : cs[i] = " "
  THEN LET k == CHOOSE i \in 1..Len(cs) :
                   cs[i] = " " /\ \A j \in 1..(i - 1) : cs[j] # " "
       IN SubSeq(cs, 1, k - 1)
  ELSE cs

(***************************************************************************)
(* The region catalog                                                      *)
(***************************************************************************)
Region(id, name, type, position) ==
  [id |-> id, name |-> name, type |-> type, position |-> position]

\* export const brainStructure = { ... }, in property order
ShippedCatalog ==
  << Region("visual_network", "Visual Network (VIS)", "REGION", <<0, 2, -18>>),
     Region("somatomotor_network", "Somatomotor Network (SMN)", "REGION", <<0, 19, 2>>),
     Region("dorsal_attention_network", "Dorsal Attention Network (DAN)", "REGION", <<12, 16, -5>>),
     Region("ventral_attention_network", "Ventral Attention / Salience (VAN)", "REGION", <<12, 5, 10>>),
     Region("limbic_network", "Limbic Network (LIM)", "REGION", <<0, -5, 5>>),
     Region("frontoparietal_network", "Frontoparietal Control (FPN)", "REGION", <<14, 12, 12>>),
     Region("default_mode_network", "Default Mode Network (DMN)", "REGION", <<0, 10, 18>>) >>

\* A test catalog of the same shape: two regions share one anchor (with a
\* PART entry there, which getMainRegions filters out), and the third lies
\* exactly 5.0 from the corner <<-20, -20, -20>> of the canonical box
FixtureCatalog ==
  << Region("alpha_core", "Alpha Core", "PART", <<20, 20, 20>>),
     Region("alpha", "Alpha Area", "REGION", <<20, 20, 20>>),
     Region("beta", "Limbic Beta", "REGION", <<20, 20, 20>>),
     Region("gamma", "Gamma Zone", "REGION", <<10, 20, -20>>) >>

CatalogData == [shipped |-> ShippedCatalog, fixture |-> FixtureCatalog]

\* the object brainStructure.js exports
BrainStructure == CatalogData[catalog]

IsRegion(region) == region.type = "REGION"

\* getMainRegions(): Object.values(brainStructure).filter(type === 'REGION')
GetMainRegions(bs) == SelectSeq(bs, IsRegion)

RegionIds(bs) == {GetMainRegions(bs)[i].id : i \in 1..Len(GetMainRegions(bs))}

(***************************************************************************)
(* Vectors and distances                                                   *)
(***************************************************************************)
Axes == 1..3

SetMin(S) == CHOOSE x \in S : \A y \in S : x <= y

SetMax(S) == CHOOSE x \in S : \A y \in S : x >= y

\* (variant: the world point is compared as it is, the scale not divided out)
DivideScalarUnscaled(point, s) == [num |-> point, den |-> 100]

\* Vector3.divideScalar: the quotient point / s, kept exact
DivideScalar(point, s) == [num |-> point, den |-> s]

\* Vector3.distanceTo, squared and multiplied by v.den^2: v is a quotient
\* [num, den] in tenths, regionPos a catalog position in tenths
DistanceToSq(v, regionPos) ==
  LET d(i) == v.num[i] - regionPos[i] * v.den
  IN  d(1) * d(1) + d(2) * d(2) + d(3) * d(3)

\* a threshold in tenths, squared, on the scale of DistanceToSq(v, _)
ThresholdSq(threshold, v) == (threshold * v.den) * (threshold * v.den)

\* minDist = Infinity before the scan has seen a region
NoneYet == [closest |-> Null, inf |-> TRUE, minDist |-> 0]

\* (variants: the comparison inverted; `<=`, which lets a later region win a tie)
CloserInverted(dist, acc) == acc.inf \/ dist > acc.minDist

CloserOrEqual(dist, acc) == acc.inf \/ dist <= acc.minDist

\* `dist < minDist` of the two scans (lines 177 and 224)
Closer(dist, acc) == acc.inf \/ dist < acc.minDist

\* for (const region of regionsToDisplay) { ... if (dist < minDist) ... }
RECURSIVE ClosestScan(_, _, _, _)
ClosestScan(regions, v, i, acc) ==
  IF i > Len(regions) THEN acc
  ELSE LET dist == DistanceToSq(v, regions[i].position)
       IN  ClosestScan(regions, v, i + 1,
                       IF Closer(dist, acc)
                       THEN [closest |-> regions[i].id, inf |-> FALSE, minDist |-> dist]
                       ELSE acc)

(***************************************************************************)
(* Pointer resolution (handlePointerMove)                                  *)
(***************************************************************************)
HoverThreshold == 20

\* (variants: no threshold test; the threshold included)
WithinHoverNoThreshold(acc, v) == acc.closest # Null

WithinHoverInclusive(acc, v) ==
  acc.closest # Null /\ ~acc.inf /\ acc.minDist <= ThresholdSq(HoverThreshold, v)

\* `closest && minDist < 2.0`
WithinHover(acc, v) ==
  acc.closest # Null /\ ~acc.inf /\ acc.minDist < ThresholdSq(HoverThreshold, v)

\* the region handlePointerMove hovers for e.point = point at state scale s
ResolvePointer(bs, point, s) ==
  LET localPoint == DivideScalar(point, s)
      acc == ClosestScan(GetMainRegions(bs), localPoint, 1, NoneYet)
  IN  IF WithinHover(acc, localPoint) THEN acc.closest ELSE Null

(***************************************************************************)
(* Responsive scale (updateScale)                                          *)
(***************************************************************************)
\* the band of min(width, height), in tenths
BaseScale(minDimension) ==
  IF minDimension < 400 THEN 25
  ELSE IF minDimension < 600 THEN 28
  ELSE IF minDimension < 768 THEN 32
  ELSE IF minDimension < 1024 THEN 38
  ELSE 42

\* the correction for width / height, in tenths
AspectFactor(width, height) ==
  IF 10 * width < 6 * height THEN 8
  ELSE IF 100 * width < 75 * height THEN 9
  ELSE IF 10 * width > 25 * height THEN 11
  ELSE 10

\* (variant: the band chosen by the width alone)
UpdateScaleByWidth(w) ==
  BaseScale(w.innerWidth) * AspectFactor(w.innerWidth, w.innerHeight)

\* newScale, in hundredths
UpdateScale(w) ==
  BaseScale(SetMin({w.innerWidth, w.innerHeight}))
    * AspectFactor(w.innerWidth, w.innerHeight)

(***************************************************************************)
(* The load pass (the process-model effect and mapMeshToRegion)            *)
(***************************************************************************)
CharacteristicSize == 40

SpatialThreshold == 50

\* geometry.computeBoundingBox over a list of vertices
BoundingBox(verts) ==
  [min |-> [a \in Axes |-> SetMin({verts[k][a] : k \in 1..Len(verts)})],
   max |-> [a \in Axes |-> SetMax({verts[k][a] : k \in 1..Len(verts)})]]

\* totalBox.union(box) over all extracted meshes
TotalBox(extracted) ==
  LET boxes == {BoundingBox(extracted[k].verts) : k \in 1..Len(extracted)}
  IN  [min |-> [a \in Axes |-> SetMin({b.min[a] : b \in boxes})],
       max |-> [a \in Axes |-> SetMax({b.max[a] : b \in boxes})]]

\* Box3.getCenter, doubled: (min + max) instead of (min + max) / 2
GetCenter2(box) == [a \in Axes |-> box.min[a] + box.max[a]]

\* Box3.getSize
GetSize(box) == [a \in Axes |-> box.max[a] - box.min[a]]

\* (variant: a characteristic size of 16.0)
NormalizationScaleWide(maxDim) ==
  [num |-> 4 * CharacteristicSize, den |-> IF maxDim = 0 THEN 1 ELSE maxDim]

\* 4.0 / (maxDim || 1), as a quotient of tenths
NormalizationScale(maxDim) ==
  [num |-> CharacteristicSize, den |-> IF maxDim = 0 THEN 1 ELSE maxDim]

\* geometry.translate(-center): v - center, doubled
Translate(v, center2) == [a \in Axes |-> 2 * v[a] - center2[a]]

\* geometry.scale(s, s, s) of a doubled vertex: the numerator over s.den
ScaleVertex(t2, s) == [a \in Axes |-> (t2[a] * s.num) \div 2]

\* (variant: scale first, then translate by the unscaled centre)
NormalizeVertexScaleFirst(v, center2, s) ==
  [a \in Axes |-> v[a] * s.num - 5 * center2[a] * s.den]

\* translate, then scale (lines 115-117)
NormalizeVertex(v, center2, s) == ScaleVertex(Translate(v, center2), s)

\* boundingBox.getCenter of a normalized mesh, a quotient in tenths
MeshCenter(mesh) ==
  LET box == BoundingBox(mesh.verts)
  IN  [num |-> GetCenter2(box), den |-> 2 * mesh.den]

\* (variant: the id only)
NameMatchesIdOnly(meshName, region) ==
  Includes(meshName, ToLowerCase(StrChars[region.id]))

\* the test of the name tier for one region (lines 147-153)
NameMatches(meshName, region) ==
  LET regionName == ToLowerCase(StrChars[region.name])
      regionId == ToLowerCase(StrChars[region.id])
  IN  \/ Includes(meshName, regionId)
      \/ Includes(meshName, StripWhitespace(regionName))
      \/ Includes(meshName, FirstWord(regionName))

\* for (const region of regionsToDisplay) { if (...) return region; }
NameTier(regions, meshName) ==
  IF \E i \in 1..Len(regions) : NameMatches(meshName, regions[i])
  THEN regions[CHOOSE i \in 1..Len(regions) :
                 /\ NameMatches(meshName, regions[i])
                 /\ \A j \in 1..(i - 1) : ~NameMatches(meshName, regions[j])].id
  ELSE Null

\* (variant: the hover threshold used for the spatial tier)
WithinSpatialTight(acc, v) ==
  acc.closest # Null /\ ~acc.inf /\ acc.minDist < ThresholdSq(HoverThreshold, v)

\* `closestRegion && minDistance < 5.0`
WithinSpatial(acc, v) ==
  acc.closest # Null /\ ~acc.inf /\ acc.minDist < ThresholdSq(SpatialThreshold, v)

\* (variant: the first region whatever the index)
FallbackFirst(bs, regions, index) ==
  IF Len(regions) > 0 THEN regions[1].id ELSE Null

\* regionsToDisplay[index % regionsToDisplay.length], else
\* brainStructure.default_mode_network (undefined if the catalog has none)
Fallback(bs, regions, index) ==
  IF Len(regions) > 0 THEN regions[(index % Len(regions)) + 1].id
  ELSE IF \E i \in 1..Len(bs) : bs[i].id = "default_mode_network"
       THEN "default_mode_network" ELSE Null

\* (variants: the name tier alone; the spatial tier tried before the name tier)
MapMeshToRegionNameOnly(bs, mesh, index) ==
  NameTier(GetMainRegions(bs), ToLowerCase(StrChars[mesh.name]))

MapMeshToRegionSpatialFirst(bs, mesh, index) ==
  LET regionsToDisplay == GetMainRegions(bs)
      byName == NameTier(regionsToDisplay, ToLowerCase(StrChars[mesh.name]))
      center == MeshCenter(mesh)
      acc == ClosestScan(regionsToDisplay, center, 1, NoneYet)
  IN  IF WithinSpatial(acc, center) THEN acc.closest
      ELSE IF byName # Null THEN byName
      ELSE Fallback(bs, regionsToDisplay, index)

\* (variant: the spatial tier scans the regions in reverse catalog order)
MapMeshToRegionReversedScan(bs, mesh, index) ==
  LET regionsToDisplay == GetMainRegions(bs)
      reversed == [i \in 1..Len(regionsToDisplay) |->
                     regionsToDisplay[Len(regionsToDisplay) + 1 - i]]
      byName == NameTier(regionsToDisplay, ToLowerCase(StrChars[mesh.name]))
      center == MeshCenter(mesh)
      acc == ClosestScan(reversed, center, 1, NoneYet)
  IN  IF byName # Null THEN byName
      ELSE IF WithinSpatial(acc, center) THEN acc.closest
      ELSE Fallback(bs, regionsToDisplay, index)

\* mapMeshToRegion(mesh, index); index counts from 0
MapMeshToRegion(bs, mesh, index) ==
  LET regionsToDisplay == GetMainRegions(bs)
      byName == NameTier(regionsToDisplay, ToLowerCase(StrChars[mesh.name]))
      center == MeshCenter(mesh)
      acc == ClosestScan(regionsToDisplay, center, 1, NoneYet)
  IN  IF byName # Null THEN byName
      ELSE IF WithinSpatial(acc, center) THEN acc.closest
      ELSE Fallback(bs, regionsToDisplay, index)

\* steps 2 and 3 of the effect: the transform derived from the union box
CanonicalTransform(extracted) ==
  LET totalBox == TotalBox(extracted)
      size == GetSize(totalBox)
      maxDim == SetMax({size[a] : a \in Axes})
  IN  [center2 |-> GetCenter2(totalBox), scale |-> NormalizationScale(maxDim)]

\* extractedMeshes.forEach((mesh, index) => { translate; scale; ... })
NormalizedMeshes(extracted) ==
  LET t == CanonicalTransform(extracted)
  IN  [k \in 1..Len(extracted) |->
         [name |-> extracted[k].name,
          verts |-> [j \in 1..Len(extracted[k].verts) |->
                       NormalizeVertex(extracted[k].verts[j], t.center2, t.scale)],
          den |-> t.scale.den]]

\* newMeshRegionMap: mesh (by position in the list) to region id
NewMeshRegionMap(bs, normalized) ==
  [k \in 1..Len(normalized) |-> MapMeshToRegion(bs, normalized[k], k - 1)]

(***************************************************************************)
(* Inputs                                                                  *)
(***************************************************************************)
MaxPrims == 2

MaxCoord == 3

Viewport(width, height) == [innerWidth |-> width, innerHeight |-> height]

\* window sizes: a phone and an ultra-wide screen
Viewports == {Viewport(320, 568), Viewport(3440, 1200)}

\* window sizes in every band of min(width, height) and every class of
\* width / height, and on the bounds 400, 600, 768, 1024, 0.6, 0.75, 2.5
AllViewports ==
  { Viewport(320, 568), Viewport(360, 520), Viewport(399, 500), Viewport(1000, 399),
    Viewport(400, 700), Viewport(500, 700), Viewport(599, 600), Viewport(1600, 599),
    Viewport(600, 1024), Viewport(700, 1000), Viewport(767, 800), Viewport(2000, 767),
    Viewport(768, 1366), Viewport(800, 1100), Viewport(1023, 1023), Viewport(2600, 1023),
    Viewport(1024, 2000), Viewport(1080, 1500), Viewport(1920, 1080), Viewport(3440, 1200),
    Viewport(768, 1024), Viewport(1024, 1024), Viewport(600, 1000), Viewport(1000, 400) }

\* raw vertices (world matrix already applied), in asset units
RawVerts == << <<0, 0, 0>>, <<MaxCoord, MaxCoord, MaxCoord>>, <<1, MaxCoord, MaxCoord>> >>

\* a one-vertex geometry at the asset's origin, a two-vertex one away from it
Geometries == {<<RawVerts[1]>>, <<RawVerts[2], RawVerts[3]>>}

MeshNames == {"", "limbic_network"}

RawPrimitives == [name : MeshNames, verts : Geometries]

\* an asset: the meshes scene.traverse visits, in order
Assets == UNION {[1..n -> RawPrimitives] : n \in 0..MaxPrims}

RawPrimitive(name, verts) == [name |-> name, verts |-> verts]

\* mesh names as modelling tools export them: none of a region, a region's
\* id, its display name without spaces, the first word of a display name
\* (shared by a later region's id), a generic name
SampleNames ==
  {"", "limbic_network", "Limbic_Lobe", "DefaultModeNetwork(DMN)", "ventral_visual",
   "Mesh_001"}

\* one-primitive assets, one per sample name
NamedAssets == {<<RawPrimitive(name, <<RawVerts[1]>>)>> : name \in SampleNames}

\* the empty asset, a one-primitive and a two-primitive asset
FewAssets ==
  { <<>>,
    <<RawPrimitive("limbic_network", <<RawVerts[1]>>)>>,
    <<RawPrimitive("", <<RawVerts[2], RawVerts[3]>>),
      RawPrimitive("limbic_network", <<RawVerts[1]>>)>> }

CatalogAnchors ==
  {ShippedCatalog[i].position : i \in 1..Len(ShippedCatalog)}
    \cup {FixtureCatalog[i].position : i \in 1..Len(FixtureCatalog)}

\* canonical points of the surface under the pointer (the canonical box is
\* [-20, 20]^3): every anchor; points 1.9, 2.0 and 2.1 from the limbic
\* anchor; points equidistant from two anchors; a corner far from all
SurfacePoints ==
  CatalogAnchors
    \cup {<<-19, -5, 5>>, <<-20, -5, 5>>, <<-14, -19, 12>>}
    \cup {<<-10, -4, 19>>, <<-9, -13, -10>>}
    \cup {<<-20, -20, 20>>}

\* an anchor, a point 2.0 from the limbic anchor, a corner far from all
FewPoints == {<<0, -5, 5>>, <<-20, -5, 5>>, <<-20, -20, 20>>}

NoEvent == <<>>

\* the values the parent passes as selectedRegion: none and two regions
SelectableRegions == {Null, "limbic_network", "visual_network"}

(***************************************************************************)
(* Input pools.  Every specification runs the same component; `inputs`     *)
(* names the pools its environment draws from: "pointer" for pointer       *)
(* events, clicks and selection over a few assets, "loading" for asset     *)
(* loads over all assets and a few points, "viewports" for the scale       *)
(* policy, "names" for mesh names.                                         *)
(***************************************************************************)
ViewportPool ==
  [pointer |-> Viewports, loading |-> Viewports,
   viewports |-> AllViewports, names |-> Viewports]

AssetPool ==
  [pointer |-> FewAssets, loading |-> Assets,
   viewports |-> FewAssets \ {<<>>}, names |-> NamedAssets \cup {<<>>}]

PointPool ==
  [pointer |-> SurfacePoints, loading |-> FewPoints,
   viewports |-> FewPoints, names |-> FewPoints]

SelectionPool ==
  [pointer |-> SelectableRegions, loading |-> {Null, "limbic_network"},
   viewports |-> {Null, "limbic_network"}, names |-> {Null, "limbic_network"}]

\* whether the parent passes onRegionClick
CallbackPool ==
  [pointer |-> BOOLEAN, loading |-> {TRUE},
   viewports |-> {TRUE}, names |-> {TRUE}]

AllAssets == UNION {AssetPool[i] : i \in DOMAIN AssetPool}

\* App: no region object (null)
NoRegion ==
  [id |-> Null, type |-> "none", isMainRegion |-> FALSE, parentRegion |-> Null,
   searchType |-> Null]

\* App: no event handled yet
NoAppEvent == [kind |-> "none", region |-> NoRegion]

\* the latest event was not a click
NoClick == [fired |-> FALSE, supplied |-> FALSE, calls |-> <<>>]

(***************************************************************************)
(* The component                                                           *)
(***************************************************************************)
Rendered == modelLoaded /\ Len(meshes) > 0

\* what the process-model effect computes for a non-empty asset, tabulated
\* per catalog and asset
ProcessedModel(bs, scn) ==
  LET normalized == NormalizedMeshes(scn)
  IN  [meshes |-> normalized, map |-> NewMeshRegionMap(bs, normalized)]

\* (the comparison makes TLC build the table once, not at every use)
ProcessedTable ==
  LET table == [key \in (DOMAIN CatalogData) \X (AllAssets \ {<<>>}) |->
                  ProcessedModel(CatalogData[key[1]], key[2])]
  IN  IF table = table THEN table ELSE table

\* the process-model effect, run when `scene` changes
ProcessModel(scn) ==
  IF Len(scn) = 0
  THEN UNCHANGED <<meshes, meshRegionMap, modelLoaded>>
  ELSE /\ meshes' = ProcessedTable[<<catalog, scn>>].meshes
       /\ meshRegionMap' = ProcessedTable[<<catalog, scn>>].map
       /\ modelLoaded' = TRUE

InitState ==
  /\ window \in ViewportPool[inputs]
  /\ mounted = FALSE
  /\ scene = <<>>
  /\ meshes = <<>>
  /\ meshRegionMap = <<>>
  /\ modelLoaded = FALSE
  /\ scale = 12
  /\ hoveredRegion = Null
  /\ cursor = "auto"
  /\ lastPoint = NoEvent
  /\ selectedRegion = Null
  /\ clickEvent = NoClick
  /\ appSelectedRegion = NoRegion
  /\ selectedMainRegion = Null
  /\ showSubparts = FALSE
  /\ isInfoPanelOpen = FALSE
  /\ timers = <<>>
  /\ relevantLinks = <<>>
  /\ loadingLinks = FALSE
  /\ fetches = {}
  /\ appEvent = NoAppEvent

Init == catalog = "shipped" /\ inputs = "pointer" /\ InitState

InitFixture == catalog = "fixture" /\ inputs = "pointer" /\ InitState

InitLoading == catalog = "shipped" /\ inputs = "loading" /\ InitState

InitLoadingFixture == catalog = "fixture" /\ inputs = "loading" /\ InitState

InitViewports == catalog = "shipped" /\ inputs = "viewports" /\ InitState

InitNames == catalog \in DOMAIN CatalogData /\ inputs = "names" /\ InitState

\* first commit, once useGLTF has the asset: both effects run
Mount ==
  /\ ~mounted
  /\ \E asset \in AssetPool[inputs] :
       /\ scene' = asset
       /\ ProcessModel(asset)
  /\ mounted' = TRUE
  /\ scale' = UpdateScale(window)
  /\ clickEvent' = NoClick
  /\ UNCHANGED <<catalog, inputs, window, hoveredRegion, cursor, lastPoint, selectedRegion>>
  /\ UNCHANGED appVars

\* modelPath changes: useGLTF returns another scene, the effect runs again
LoadScene ==
  /\ mounted
  /\ \E asset \in AssetPool[inputs] \ {scene} :
       /\ scene' = asset
       /\ ProcessModel(asset)
  /\ clickEvent' = NoClick
  /\ UNCHANGED <<catalog, inputs, window, mounted, scale, hoveredRegion, cursor, lastPoint,
                 selectedRegion>>
  /\ UNCHANGED appVars

\* window 'resize' event: updateScale
Resize ==
  /\ mounted
  /\ \E w \in ViewportPool[inputs] \ {window} :
       /\ window' = w
       /\ scale' = UpdateScale(w)
  /\ clickEvent' = NoClick
  /\ UNCHANGED <<catalog, inputs, mounted, scene, meshes, meshRegionMap,
                 modelLoaded, hoveredRegion, cursor, lastPoint, selectedRegion>>
  /\ UNCHANGED appVars

\* <group scale={scale}>: the world-space point of a canonical surface point
WorldPoint(p, s) == [a \in Axes |-> p[a] * s]

\* (variant: the handler also tags the first mesh with the hovered region)
PointerMoveTagsMesh ==
  /\ mounted /\ Rendered
  /\ \E p \in PointPool[inputs] :
       LET region == ResolvePointer(BrainStructure, WorldPoint(p, scale), scale)
       IN  /\ hoveredRegion' = region
           /\ cursor' = IF region # Null THEN "pointer" ELSE "auto"
           /\ lastPoint' = p
           /\ meshRegionMap' =
                [meshRegionMap EXCEPT ![1] = IF region # Null THEN region ELSE @]
  /\ clickEvent' = NoClick
  /\ UNCHANGED <<catalog, inputs, window, mounted, scene, meshes,
                 modelLoaded, scale, selectedRegion>>
  /\ UNCHANGED appVars

\* (variant: the hover state is kept when the point resolves to no region)
PointerMoveSticky ==
  /\ mounted /\ Rendered
  /\ \E p \in PointPool[inputs] :
       LET region == ResolvePointer(BrainStructure, WorldPoint(p, scale), scale)
       IN  /\ hoveredRegion' = IF region # Null THEN region ELSE hoveredRegion
           /\ cursor' = IF region # Null THEN "pointer" ELSE cursor
           /\ lastPoint' = p
  /\ clickEvent' = NoClick
  /\ UNCHANGED <<catalog, inputs, window, mounted, scene, meshes, meshRegionMap,
                 modelLoaded, scale, selectedRegion>>
  /\ UNCHANGED appVars

\* onPointerMove={handlePointerMove}
PointerMove ==
  /\ mounted /\ Rendered
  /\ \E p \in PointPool[inputs] :
       LET region == ResolvePointer(BrainStructure, WorldPoint(p, scale), scale)
       IN  /\ hoveredRegion' = region
           /\ cursor' = IF region # Null THEN "pointer" ELSE "auto"
           /\ lastPoint' = p
  /\ clickEvent' = NoClick
  /\ UNCHANGED <<catalog, inputs, window, mounted, scene, meshes, meshRegionMap,
                 modelLoaded, scale, selectedRegion>>
  /\ UNCHANGED appVars

\* onPointerOut={() => setHoveredRegion(null)}
PointerOut ==
  /\ mounted /\ Rendered
  /\ lastPoint # NoEvent
  /\ hoveredRegion' = Null
  /\ lastPoint' = NoEvent
  /\ clickEvent' = NoClick
  /\ UNCHANGED <<catalog, inputs, window, mounted, scene, meshes, meshRegionMap,
                 modelLoaded, scale, cursor, selectedRegion>>
  /\ UNCHANGED appVars

\* handleClick: the calls of onRegionClick it makes, given the hover state
\* of the render it closes over and whether the prop was supplied
\* (variant: no test of the hover state)
HandleClickUnguarded(hovered, supplied) ==
  IF supplied THEN <<hovered>> ELSE <<>>

HandleClick(hovered, supplied) ==
  IF hovered # Null /\ supplied THEN <<hovered>> ELSE <<>>

\* onClick={handleClick}: a click on a mesh; the parent may or may not have
\* passed onRegionClick.  stopPropagation keeps the event from the other
\* meshes under the pointer, so the handler runs once per click.
Click ==
  /\ mounted /\ Rendered
  /\ \E supplied \in CallbackPool[inputs] :
       clickEvent' = [fired |-> TRUE, supplied |-> supplied,
                      calls |-> HandleClick(hoveredRegion, supplied)]
  /\ UNCHANGED <<catalog, inputs, window, mounted, scene, meshes, meshRegionMap,
                 modelLoaded, scale, hoveredRegion, cursor, lastPoint,
                 selectedRegion>>
  /\ UNCHANGED appVars

\* the parent re-renders the component with another selectedRegion
SelectRegion ==
  /\ mounted
  /\ \E region \in SelectionPool[inputs] \ {selectedRegion} : selectedRegion' = region
  /\ clickEvent' = NoClick
  /\ UNCHANGED <<catalog, inputs, window, mounted, scene, meshes, meshRegionMap,
                 modelLoaded, scale, hoveredRegion, cursor, lastPoint>>
  /\ UNCHANGED appVars

Next ==
  Mount \/ LoadScene \/ Resize \/ PointerMove \/ PointerOut \/ Click \/ SelectRegion

Spec == Init /\ [][Next]_vars

\* the same component over the shipped or the test catalog
SpecCatalogs == (Init \/ InitFixture) /\ [][Next]_vars

\* asset loads, over every asset of the bounds
SpecLoading == InitLoading /\ [][Next]_vars

\* asset loads over the shipped or the test catalog
SpecLoadingCatalogs == (InitLoading \/ InitLoadingFixture) /\ [][Next]_vars

\* the scale policy, over window sizes in every band
SpecViewports == InitViewports /\ [][Next]_vars

\* the name tier, over sample mesh names and both catalogs
SpecNames == InitNames /\ [][Next]_vars

(***************************************************************************)
(* App (App.jsx).  App keeps the selection and the view; it renders the    *)
(* procedural BrainModel, whose meshes call onRegionClick, the region list *)
(* and the search dropdown.  GltfBrainModel is not mounted by App: in      *)
(* SpecApp its variables stay at their initial values.  A region object is *)
(* a record; the objects handleSearch builds are copies that also carry    *)
(* searchType and, for a part, parentRegion.  The query text and the       *)
(* result list are not modelled: a search-result click carries any result  *)
(* some query produces.  Effects on [selectedRegion] run in the same step  *)
(* as the update that changes selectedRegion.                              *)
(***************************************************************************)
MaxTimers == 2

MaxFetches == 2

\* the catalogs App runs over: the shipped one, whose regions have no
\* parts, and a test catalog whose regions have parts
AppCatalogs ==
  [shipped |->
     [main |-> [i \in 1..Len(ShippedCatalog) |-> ShippedCatalog[i].id],
      parts |-> [id \in {ShippedCatalog[i].id : i \in 1..Len(ShippedCatalog)} |-> <<>>]],
   withParts |->
     [main |-> <<"alpha", "beta", "gamma">>,
      parts |-> ("alpha" :> <<"alpha_a", "alpha_b">>) @@ ("beta" :> <<"beta_a">>)
                  @@ ("gamma" :> <<>>)]]

AppCatalog == AppCatalogs[catalog]

SeqRange(seq) == {seq[i] : i \in 1..Len(seq)}

\* a main region object of brainStructure
MainRegion(id) ==
  [id |-> id, type |-> "REGION", isMainRegion |-> TRUE, parentRegion |-> Null,
   searchType |-> Null]

\* a part object of a region's parts array
Part(id) ==
  [id |-> id, type |-> "PART", isMainRegion |-> FALSE, parentRegion |-> Null,
   searchType |-> Null]

\* getMainRegions()
AppMainRegions == {MainRegion(id) : id \in SeqRange(AppCatalog.main)}

\* getParts(mainRegionId): brainStructure[mainRegionId]?.parts || []
GetParts(mainRegionId) ==
  IF mainRegionId \in DOMAIN AppCatalog.parts
  THEN {Part(id) : id \in SeqRange(AppCatalog.parts[mainRegionId])}
  ELSE {}

\* BrainModel's getRegionsToDisplay()
GetRegionsToDisplay ==
  IF showSubparts /\ selectedMainRegion # Null
  THEN GetParts(selectedMainRegion)
  ELSE AppMainRegions

\* the chips of the region list
RegionList == IF showSubparts THEN GetParts(selectedMainRegion) ELSE AppMainRegions

\* the results handleSearch can build: a copy of a region, or a copy of a
\* part with its parent
SearchResults ==
  {[MainRegion(id) EXCEPT !.searchType = "REGION"] : id \in SeqRange(AppCatalog.main)}
    \cup UNION {{[Part(id) EXCEPT !.searchType = "PART", !.parentRegion = parent] :
                   id \in SeqRange(AppCatalog.parts[parent])} :
                parent \in DOMAIN AppCatalog.parts}

\* useEffect(() => { if (selectedRegion) setIsInfoPanelOpen(true) },
\* [selectedRegion]): runs when selectedRegion is another object than
\* before; a search result is a fresh object each time
AutoOpen(region, open) ==
  IF region # NoRegion /\ (region # appSelectedRegion \/ region.searchType # Null)
  THEN TRUE
  ELSE open

\* (variant: the view is never switched)
\* .then(links => { setRelevantLinks(links); setLoadingLinks(false) })
FetchResolved(links) ==
  /\ relevantLinks' = links
  /\ loadingLinks' = FALSE

\* useEffect(..., [selectedRegion]) that fetches the links, run with the new
\* value of selectedRegion; it runs when selectedRegion is another object
\* than before.  Two pending fetches for one region count as one.
FetchLinksEffect(region) ==
  IF region = appSelectedRegion /\ region.searchType = Null
  THEN UNCHANGED <<relevantLinks, loadingLinks, fetches>>
  ELSE IF region # NoRegion
  THEN /\ region.id \in fetches \/ Cardinality(fetches) < MaxFetches
       /\ loadingLinks' = TRUE
       /\ relevantLinks' = <<>>
       /\ fetches' = fetches \cup {region.id}
  ELSE /\ relevantLinks' = <<>>
       /\ UNCHANGED <<loadingLinks, fetches>>

HandleRegionClickKeepView(region) ==
  /\ appSelectedRegion' = region
  /\ UNCHANGED <<selectedMainRegion, showSubparts>>

\* handleRegionClick
HandleRegionClick(region) ==
  IF region.isMainRegion
  THEN /\ selectedMainRegion' = region.id
       /\ appSelectedRegion' = region
       /\ showSubparts' = TRUE
  ELSE /\ appSelectedRegion' = region
       /\ UNCHANGED <<selectedMainRegion, showSubparts>>

\* a click on a mesh of BrainModel or on a chip of the region list
RegionClick ==
  /\ \E region \in GetRegionsToDisplay \cup RegionList :
       /\ HandleRegionClick(region)
       /\ isInfoPanelOpen' = AutoOpen(region, isInfoPanelOpen)
       /\ FetchLinksEffect(region)
       /\ appEvent' = [kind |-> "regionClick", region |-> region]
  /\ UNCHANGED timers
  /\ UNCHANGED <<catalog, componentVars>>

\* handleSearchResultClick
SearchResultClick ==
  /\ \E result \in SearchResults :
       /\ IF result.searchType = "REGION"
          THEN /\ selectedMainRegion' = result.id
               /\ appSelectedRegion' = result
               /\ showSubparts' = TRUE
               /\ isInfoPanelOpen' = AutoOpen(result, isInfoPanelOpen)
               /\ FetchLinksEffect(result)
               /\ UNCHANGED timers
          ELSE /\ Len(timers) < MaxTimers
               /\ selectedMainRegion' = result.parentRegion
               /\ showSubparts' = TRUE
               /\ timers' = Append(timers, result)
               /\ UNCHANGED <<appSelectedRegion, isInfoPanelOpen, relevantLinks,
                              loadingLinks, fetches>>
       /\ appEvent' = [kind |-> "searchResultClick", region |-> result]
  /\ UNCHANGED <<catalog, componentVars>>

\* setTimeout(() => setSelectedRegion(result), 100) fires; equal delays
\* fire in the order they were set
Timeout ==
  /\ timers # <<>>
  /\ appSelectedRegion' = Head(timers)
  /\ isInfoPanelOpen' = AutoOpen(Head(timers), isInfoPanelOpen)
  /\ FetchLinksEffect(Head(timers))
  /\ timers' = Tail(timers)
  /\ appEvent' = [kind |-> "timeout", region |-> Head(timers)]
  /\ UNCHANGED <<selectedMainRegion, showSubparts>>
  /\ UNCHANGED <<catalog, componentVars>>

\* (variant: Back leaves the selected main region)
BackKeepsMainRegion ==
  /\ appSelectedRegion # NoRegion \/ showSubparts
  /\ showSubparts' = FALSE
  /\ appSelectedRegion' = NoRegion
  /\ FetchLinksEffect(NoRegion)
  /\ appEvent' = [kind |-> "back", region |-> NoRegion]
  /\ UNCHANGED <<selectedMainRegion, isInfoPanelOpen, timers>>
  /\ UNCHANGED <<catalog, componentVars>>

\* handleBackToMainRegions: the breadcrumb link or the Back button
BackToMainRegions ==
  /\ appSelectedRegion # NoRegion \/ showSubparts
  /\ showSubparts' = FALSE
  /\ selectedMainRegion' = Null
  /\ appSelectedRegion' = NoRegion
  /\ FetchLinksEffect(NoRegion)
  /\ appEvent' = [kind |-> "back", region |-> NoRegion]
  /\ UNCHANGED <<isInfoPanelOpen, timers>>
  /\ UNCHANGED <<catalog, componentVars>>

\* handleClearSelection: the Clear button
ClearSelection ==
  /\ appSelectedRegion # NoRegion
  /\ appSelectedRegion' = NoRegion
  /\ selectedMainRegion' = Null
  /\ showSubparts' = FALSE
  /\ isInfoPanelOpen' = FALSE
  /\ FetchLinksEffect(NoRegion)
  /\ appEvent' = [kind |-> "clear", region |-> NoRegion]
  /\ UNCHANGED timers
  /\ UNCHANGED <<catalog, componentVars>>

\* the Info button, the drawer's close button and the overlay
ToggleInfoPanel ==
  /\ isInfoPanelOpen' = ~isInfoPanelOpen
  /\ appEvent' = [kind |-> "info", region |-> NoRegion]
  /\ UNCHANGED <<appSelectedRegion, selectedMainRegion, showSubparts, timers,
                 relevantLinks, loadingLinks, fetches>>
  /\ UNCHANGED <<catalog, componentVars>>

\* a pending fetchRelevantLinks promise resolves, with links for the region
\* it was issued for or with none
FetchResolves ==
  /\ \E id \in fetches : \E links \in {<<>>, <<id>>} :
       /\ FetchResolved(links)
       /\ fetches' = fetches \ {id}
       /\ appEvent' = [kind |-> "fetchResolved", region |-> NoRegion]
  /\ UNCHANGED <<appSelectedRegion, selectedMainRegion, showSubparts,
                 isInfoPanelOpen, timers>>
  /\ UNCHANGED <<catalog, componentVars>>

\* .catch(error => { console.error(...); setLoadingLinks(false) })
FetchRejects ==
  /\ \E id \in fetches : fetches' = fetches \ {id}
  /\ loadingLinks' = FALSE
  /\ appEvent' = [kind |-> "fetchRejected", region |-> NoRegion]
  /\ UNCHANGED <<appSelectedRegion, selectedMainRegion, showSubparts,
                 isInfoPanelOpen, timers, relevantLinks>>
  /\ UNCHANGED <<catalog, componentVars>>

InitApp ==
  /\ catalog \in DOMAIN AppCatalogs
  /\ inputs = "names"
  /\ window = Viewport(320, 568)
  /\ InitState

NextApp ==
  RegionClick \/ SearchResultClick \/ Timeout \/ BackToMainRegions
    \/ ClearSelection \/ ToggleInfoPanel \/ FetchResolves \/ FetchRejects

SpecApp == InitApp /\ [][NextApp]_vars

(***************************************************************************)
(* Reference definitions for the properties, in canonical coordinates      *)
(* (tenths), written without the operators above                           *)
(***************************************************************************)
Regs == GetMainRegions(BrainStructure)

RegIndex == 1..Len(Regs)

Sq(x) == x * x

\* squared distance between two canonical points
CanonDistSq(p, q) == Sq(p[1] - q[1]) + Sq(p[2] - q[2]) + Sq(p[3] - q[3])

MinCanonDistSq(p) == SetMin({CanonDistSq(p, Regs[i].position) : i \in RegIndex})

\* the regions at minimal distance from p, by catalog position
NearestSet(p) == {i \in RegIndex : CanonDistSq(p, Regs[i].position) = MinCanonDistSq(p)}

\* p resolved directly: the first nearest region if nearer than the threshold
DirectResolve(p) ==
  IF MinCanonDistSq(p) < Sq(HoverThreshold)
  THEN Regs[SetMin(NearestSet(p))].id
  ELSE Null

PositionOf(id) == (CHOOSE r \in {Regs[i] : i \in RegIndex} : r.id = id).position

\* every scale updateScale can produce: a band value times a correction
PolicyScales == {b * f : b \in {25, 28, 32, 38, 42}, f \in {8, 9, 10, 11}}

\* what handlePointerMove resolves for a canonical point, over all those
\* scales (tabulated once per catalog and point)
ResultsOverScales ==
  LET table == [key \in (DOMAIN CatalogData) \X SurfacePoints |->
                  {ResolvePointer(CatalogData[key[1]], WorldPoint(key[2], s), s) : s \in PolicyScales}]
  IN  IF table = table THEN table ELSE table

MeshIndex == 1..Len(meshes)

\* twice the bounding-box centre of mesh k, as numerators over meshes[k].den
Center2Num(k) ==
  [a \in Axes |->
     SetMin({meshes[k].verts[j][a] : j \in 1..Len(meshes[k].verts)})
       + SetMax({meshes[k].verts[j][a] : j \in 1..Len(meshes[k].verts)})]

\* squared distance from the centre of mesh k to a catalog position, times
\* (2 * meshes[k].den)^2
CenterDistSq(k, pos) ==
  LET d(a) == Center2Num(k)[a] - 2 * meshes[k].den * pos[a]
  IN  Sq(d(1)) + Sq(d(2)) + Sq(d(3))

MinCenterDistSq(k) == SetMin({CenterDistSq(k, Regs[i].position) : i \in RegIndex})

\* the first region in catalog order nearest to the centre of mesh k
NearestToCenter(k) ==
  Regs[SetMin({i \in RegIndex : CenterDistSq(k, Regs[i].position) = MinCenterDistSq(k)})].id

\* the centre of mesh k is nearer than the spatial-match threshold to an anchor
CenterWithinSpatial(k) == MinCenterDistSq(k) < Sq(SpatialThreshold * 2 * meshes[k].den)

\* mesh k has no name match
Unmatched(k) == NameTier(Regs, ToLowerCase(StrChars[meshes[k].name])) = Null

\* the raw coordinates of the asset in `scene` on one axis
RawCoords(a) ==
  UNION {{scene[k].verts[j][a] : j \in 1..Len(scene[k].verts)} : k \in 1..Len(scene)}

\* the largest dimension of the asset's union bounding box
RawMaxDim == SetMax({SetMax(RawCoords(a)) - SetMin(RawCoords(a)) : a \in Axes})

\* the normalized coordinates on one axis, as numerators
NormCoords(a) ==
  UNION {{meshes[k].verts[j][a] : j \in 1..Len(meshes[k].verts)} : k \in MeshIndex}

(***************************************************************************)
(* Properties                                                              *)
(***************************************************************************)

\* C1: the hover result of a pointer-move at canonical point p, received as
\* the world point p * scale, is p resolved directly against the anchors
\* with the fixed threshold, at the current scale and at every scale the
\* scale policy can produce.
PointerIgnoresDisplayScale ==
  lastPoint # NoEvent =>
    /\ hoveredRegion = DirectResolve(lastPoint)
    /\ ResultsOverScales[<<catalog, lastPoint>>] = {DirectResolve(lastPoint)}

\* a region hovered at the ultra-wide scale 4.62, reached by a resize
C1Witness ==
  /\ lastPoint = <<0, 10, 18>>
  /\ hoveredRegion = "default_mode_network"
  /\ scale = 462

\* C2: a point strictly nearer than the threshold to region r's anchor, and
\* strictly nearer to it than to every other anchor, resolves to r.
StrictlyNearestResolves ==
  lastPoint # NoEvent =>
    \A i \in RegIndex :
      ( ( /\ CanonDistSq(lastPoint, Regs[i].position) < Sq(HoverThreshold)
          /\ \A j \in RegIndex \ {i} :
               CanonDistSq(lastPoint, Regs[i].position) < CanonDistSq(lastPoint, Regs[j].position) )
        => hoveredRegion = Regs[i].id )

\* the point 0.1 inside the threshold of the limbic anchor (region #5),
\* outside the threshold of all the others
C2Witness ==
  /\ lastPoint = <<-19, -5, 5>>
  /\ hoveredRegion = "limbic_network"
  /\ \A i \in RegIndex :
       ( Regs[i].id # "limbic_network" =>
           CanonDistSq(lastPoint, Regs[i].position) > Sq(HoverThreshold) )

\* C3: a point farther than the threshold from every anchor resolves to none.
FarFromAllResolvesNone ==
  lastPoint # NoEvent =>
    ( (\A i \in RegIndex : CanonDistSq(lastPoint, Regs[i].position) > Sq(HoverThreshold))
      => hoveredRegion = Null )

C3Witness ==
  /\ lastPoint = <<-20, -20, 20>>
  /\ MinCanonDistSq(lastPoint) > Sq(HoverThreshold)
  /\ hoveredRegion = Null
  /\ cursor = "auto"

\* C4 as stated: a nearest region is returned whenever the minimum distance
\* is at most the threshold, none only when it is greater.
HoverThresholdInclusive ==
  lastPoint # NoEvent =>
    /\ ( MinCanonDistSq(lastPoint) <= Sq(HoverThreshold) =>
           /\ hoveredRegion # Null
           /\ CanonDistSq(lastPoint, PositionOf(hoveredRegion)) = MinCanonDistSq(lastPoint) )
    /\ ( hoveredRegion = Null => MinCanonDistSq(lastPoint) > Sq(HoverThreshold) )

\* C4, amended: a nearest region is returned exactly when the minimum
\* distance is strictly less than the threshold; at a minimum distance equal
\* to or greater than the threshold the result is none.
HoverThresholdStrict ==
  lastPoint # NoEvent =>
    /\ ( hoveredRegion # Null <=> MinCanonDistSq(lastPoint) < Sq(HoverThreshold) )
    /\ ( hoveredRegion # Null =>
           CanonDistSq(lastPoint, PositionOf(hoveredRegion)) = MinCanonDistSq(lastPoint) )

\* a point exactly 2.0 from its nearest anchor
C4Witness ==
  /\ lastPoint = <<-20, -5, 5>>
  /\ MinCanonDistSq(lastPoint) = Sq(HoverThreshold)
  /\ hoveredRegion = Null

\* C5: when several regions are at the minimal distance (within the
\* threshold), the one first in catalog order is returned, every time.
TieResolvesToFirst ==
  ( /\ lastPoint # NoEvent
    /\ Cardinality(NearestSet(lastPoint)) >= 2
    /\ MinCanonDistSq(lastPoint) < Sq(HoverThreshold) )
  => hoveredRegion = Regs[SetMin(NearestSet(lastPoint))].id

\* the pointer at the anchor two regions of the test catalog share
C5Witness ==
  /\ catalog = "fixture"
  /\ lastPoint = <<20, 20, 20>>
  /\ Regs[2].position = Regs[1].position
  /\ hoveredRegion = Regs[1].id

\* C6: after the load pass every primitive of the asset has one assigned
\* region id, the id of a catalog region, and the region map has one entry
\* per mesh.
EveryPrimitiveAssigned ==
  /\ (Len(scene) > 0 => Len(meshes) = Len(scene))
  /\ DOMAIN meshRegionMap = MeshIndex
  /\ \A k \in MeshIndex : meshRegionMap[k] # Null /\ meshRegionMap[k] \in RegionIds(BrainStructure)

\* two unnamed primitives of one asset, assigned different regions
C6Witness ==
  /\ Len(scene) = 2 /\ Len(meshes) = 2
  /\ \A k \in MeshIndex : meshes[k].name = ""
  /\ meshRegionMap[1] # meshRegionMap[2]
  /\ meshRegionMap[1] # Null /\ meshRegionMap[2] # Null

\* the region map of an asset with primitive k renamed to a region's id
\* (tabulated once per catalog and asset)
RenamedMaps ==
  LET table == [key \in (DOMAIN CatalogData) \X (Assets \ {<<>>}) |->
                  [k \in 1..Len(key[2]) |->
                     [id \in RegionIds(CatalogData[key[1]]) |->
                        ProcessedModel(CatalogData[key[1]],
                                       [key[2] EXCEPT ![k].name = id]).map]]]
  IN  IF table = table THEN table ELSE table

\* C7: a primitive named exactly a region's id is assigned that region,
\* wherever it lies; renaming primitive k to a region's id makes k's
\* assignment that region and leaves the other assignments as they are.
NameBeforeSpatial ==
  /\ \A k \in MeshIndex :
       (meshes[k].name \in RegionIds(BrainStructure) => meshRegionMap[k] = meshes[k].name)
  /\ ( Len(scene) > 0 =>
         \A k \in 1..Len(scene) : \A id \in RegionIds(BrainStructure) :
           LET map == RenamedMaps[<<catalog, scene>>][k][id]
           IN  /\ map[k] = id
               /\ \A j \in 1..Len(scene) : (j # k => map[j] = meshRegionMap[j]) )

\* a primitive named limbic_network whose centre is nearest to another anchor
C7Witness ==
  \E k \in MeshIndex :
    /\ meshes[k].name = "limbic_network"
    /\ meshRegionMap[k] = "limbic_network"
    /\ NearestToCenter(k) # "limbic_network"
    /\ CenterWithinSpatial(k)

\* C8: a primitive without a name match whose centre is strictly nearer than
\* the spatial-match threshold to some anchor is assigned the nearest
\* region, the first in catalog order on ties.
SpatialTierNearest ==
  \A k \in MeshIndex :
    (Unmatched(k) /\ CenterWithinSpatial(k)) => meshRegionMap[k] = NearestToCenter(k)

\* two unnamed primitives nearest to one anchor, both assigned its region,
\* the second not the region its index would give
C8Witness ==
  /\ catalog = "shipped"
  /\ Len(meshes) = 2
  /\ \A k \in MeshIndex : Unmatched(k) /\ CenterWithinSpatial(k)
  /\ meshRegionMap[1] = meshRegionMap[2]
  /\ meshRegionMap[2] = NearestToCenter(2)
  /\ meshRegionMap[2] # Regs[2].id

NormalizedToCanonicalBox ==
  (Len(scene) > 0 /\ RawMaxDim > 0) =>
    /\ Len(meshes) = Len(scene)
    /\ \A k \in MeshIndex :
         /\ meshes[k].den > 0
         /\ meshes[k].den = meshes[1].den
         /\ Len(meshes[k].verts) = Len(scene[k].verts)
         /\ \A j \in 1..Len(meshes[k].verts) : \A a \in Axes :
              2 * RawMaxDim * meshes[k].verts[j][a] =
                meshes[k].den * CharacteristicSize
                  * (2 * scene[k].verts[j][a] - (SetMin(RawCoords(a)) + SetMax(RawCoords(a))))
    /\ \A a \in Axes : SetMin(NormCoords(a)) + SetMax(NormCoords(a)) = 0
    /\ SetMax({SetMax(NormCoords(a)) - SetMin(NormCoords(a)) : a \in Axes})
         = CharacteristicSize * meshes[1].den

\* an asset of two different primitives whose union box is not centred at
\* the asset's origin and whose largest dimension is not 4.0
C10Witness ==
  /\ Len(scene) = 2 /\ Len(meshes) = 2
  /\ scene[1].verts # scene[2].verts
  /\ RawMaxDim = MaxCoord
  /\ \E a \in Axes : SetMin(RawCoords(a)) + SetMax(RawCoords(a)) # 0

\* what the component returns from its render: the loading placeholder or
\* the group of meshes (there is no third output)
View == IF ~modelLoaded \/ Len(meshes) = 0 THEN "loading" ELSE "model"

\* C11: for a loaded asset whose union bounding box has maximum dimension 0
\* the scale factor applied to the geometry is exactly 1 (one unit is 10
\* tenths, so the quotient num/den is 10/1).
DegenerateScaleIsOne ==
  (mounted /\ Len(scene) > 0 /\ RawMaxDim = 0) =>
    LET normalizationScale == CanonicalTransform(scene).scale
    IN  /\ normalizationScale.den # 0
        /\ normalizationScale.num = 10 * normalizationScale.den

\* C12: once an asset with zero primitives has been loaded the component
\* shows a load-error output: it neither stays in the loading placeholder
\* nor renders meshes.
EmptyAssetShowsLoadError ==
  (mounted /\ Len(scene) = 0) => View \notin {"loading", "model"}

\* C13: whatever was loaded before, the primitives that are rendered and
\* their region map are the ones derived from the asset loaded last.
RenderedFromLatestLoad ==
  (mounted /\ View = "model") =>
    /\ Len(scene) > 0
    /\ meshes = NormalizedMeshes(scene)
    /\ meshRegionMap = NewMeshRegionMap(BrainStructure, NormalizedMeshes(scene))

\* C15: in every state the cursor is the 'pointer' cursor only if some region
\* is hovered: whenever the hover state is none the cursor is the default.
CursorPointerOnlyWhenHovered ==
  /\ cursor = "pointer" => hoveredRegion # Null
  /\ hoveredRegion = Null => cursor = "auto"

\* C14: the region assigned to a primitive is written by the load pass that
\* creates the primitive and by nothing else: every step that is not a load
\* (pointer move, pointer out, click, resize, change of the selected region)
\* leaves the primitives and their assigned regions as they were.
RegionAssignedOnlyByLoad ==
  [][(mounted /\ scene' = scene) => UNCHANGED <<meshes, meshRegionMap>>]_vars

\* a loaded model after a pointer move onto a region other than the first
\* primitive's, a change of the selection and a click
C14Witness ==
  /\ View = "model"
  /\ meshRegionMap = NewMeshRegionMap(BrainStructure, NormalizedMeshes(scene))
  /\ lastPoint # NoEvent
  /\ hoveredRegion \notin {Null, meshRegionMap[1]}
  /\ selectedRegion \notin {Null, meshRegionMap[1]}
  /\ clickEvent.fired

\* the hover result of a pointer-move at a canonical point in a run that has
\* no previous hover, no selection and no primitive: a function of the
\* catalog and the point alone (tabulated once)
HoverOfPoint ==
  LET table == [key \in (DOMAIN CatalogData) \X SurfacePoints |->
                  ResolvePointer(CatalogData[key[1]], WorldPoint(key[2], 100), 100)]
  IN  IF table = table THEN table ELSE table

\* C16: the hover state left by a pointer-move is a function of the event's
\* canonical point and the catalog only: whatever the previous hover state,
\* the selected region and the primitives' names, positions and assigned
\* regions of the run, it is the value that point has in HoverOfPoint, and
\* nothing of the previous hover state survives the event.
HoverDependsOnPointOnly ==
  lastPoint # NoEvent => hoveredRegion = HoverOfPoint[<<catalog, lastPoint>>]

\* a pointer-move that resolved to a region which is neither selected nor
\* assigned to any primitive, with another region selected
C16Witness ==
  /\ Len(meshes) = 2
  /\ lastPoint # NoEvent
  /\ selectedRegion # Null
  /\ hoveredRegion \notin {Null, selectedRegion}
  /\ \A k \in MeshIndex : meshRegionMap[k] # hoveredRegion

\* the smaller of the window's two dimensions
MinDimension == IF window.innerWidth <= window.innerHeight
                THEN window.innerWidth ELSE window.innerHeight

\* the base value of the band of min(width, height), in tenths
PolicyBase ==
  CASE MinDimension \in 0..399 -> 25
    [] MinDimension \in 400..599 -> 28
    [] MinDimension \in 600..767 -> 32
    [] MinDimension \in 768..1023 -> 38
    [] OTHER -> 42

\* the correction for width / height, in tenths: width / height < 3/5,
\* < 3/4, > 5/2, compared as integers
PolicyCorrection ==
  CASE 5 * window.innerWidth < 3 * window.innerHeight -> 8
    [] /\ 5 * window.innerWidth >= 3 * window.innerHeight
       /\ 4 * window.innerWidth < 3 * window.innerHeight -> 9
    [] 2 * window.innerWidth > 5 * window.innerHeight -> 11
    [] OTHER -> 10

\* C17: once mounted, and after every resize, the display scale is the base
\* value of the band of min(width, height) times the aspect-ratio correction
\* of the current window, whatever the scale was before.
ScaleIsPolicyOfViewport ==
  mounted => scale = PolicyBase * PolicyCorrection

\* a window resized to a landscape size whose smaller dimension is in the
\* lowest band and whose aspect ratio is above 2.5
C17Witness ==
  /\ mounted
  /\ window = Viewport(1000, 399)
  /\ scale = 275

\* the sample mesh names in lower case, character by character
LowerName ==
  "" :> <<>> @@
  "limbic_network" :> <<"l", "i", "m", "b", "i", "c", "_", "n", "e", "t", "w", "o", "r", "k">> @@
  "Limbic_Lobe" :> <<"l", "i", "m", "b", "i", "c", "_", "l", "o", "b", "e">> @@
  "DefaultModeNetwork(DMN)" :> <<"d", "e", "f", "a", "u", "l", "t", "m", "o", "d", "e", "n", "e", "t", "w", "o", "r", "k", "(", "d", "m", "n", ")">> @@
  "ventral_visual" :> <<"v", "e", "n", "t", "r", "a", "l", "_", "v", "i", "s", "u", "a", "l">> @@
  "Mesh_001" :> <<"m", "e", "s", "h", "_", "0", "0", "1">>

\* per region the three strings the name tier looks for, in lower case:
\* the id, the display name without whitespace, its first word
NameNeedles ==
  "visual_network" :>
    {<<"v", "i", "s", "u", "a", "l", "_", "n", "e", "t", "w", "o", "r", "k">>,
     <<"v", "i", "s", "u", "a", "l", "n", "e", "t", "w", "o", "r", "k", "(", "v", "i", "s", ")">>,
     <<"v", "i", "s", "u", "a", "l">>} @@
  "somatomotor_network" :>
    {<<"s", "o", "m", "a", "t", "o", "m", "o", "t", "o", "r", "_", "n", "e", "t", "w", "o", "r", "k">>,
     <<"s", "o", "m", "a", "t", "o", "m", "o", "t", "o", "r", "n", "e", "t", "w", "o", "r", "k", "(", "s", "m", "n", ")">>,
     <<"s", "o", "m", "a", "t", "o", "m", "o", "t", "o", "r">>} @@
  "dorsal_attention_network" :>
    {<<"d", "o", "r", "s", "a", "l", "_", "a", "t", "t", "e", "n", "t", "i", "o", "n", "_", "n", "e", "t", "w", "o", "r", "k">>,
     <<"d", "o", "r", "s", "a", "l", "a", "t", "t", "e", "n", "t", "i", "o", "n", "n", "e", "t", "w", "o", "r", "k", "(", "d", "a", "n", ")">>,
     <<"d", "o", "r", "s", "a", "l">>} @@
  "ventral_attention_network" :>
    {<<"v", "e", "n", "t", "r", "a", "l", "_", "a", "t", "t", "e", "n", "t", "i", "o", "n", "_", "n", "e", "t", "w", "o", "r", "k">>,
     <<"v", "e", "n", "t", "r", "a", "l", "a", "t", "t", "e", "n", "t", "i", "o", "n", "/", "s", "a", "l", "i", "e", "n", "c", "e", "(", "v", "a", "n", ")">>,
     <<"v", "e", "n", "t", "r", "a", "l">>} @@
  "limbic_network" :>
    {<<"l", "i", "m", "b", "i", "c", "_", "n", "e", "t", "w", "o", "r", "k">>,
     <<"l", "i", "m", "b", "i", "c", "n", "e", "t", "w", "o", "r", "k", "(", "l", "i", "m", ")">>,
     <<"l", "i", "m", "b", "i", "c">>} @@
  "frontoparietal_network" :>
    {<<"f", "r", "o", "n", "t", "o", "p", "a", "r", "i", "e", "t", "a", "l", "_", "n", "e", "t", "w", "o", "r", "k">>,
     <<"f", "r", "o", "n", "t", "o", "p", "a", "r", "i", "e", "t", "a", "l", "c", "o", "n", "t", "r", "o", "l", "(", "f", "p", "n", ")">>,
     <<"f", "r", "o", "n", "t", "o", "p", "a", "r", "i", "e", "t", "a", "l">>} @@
  "default_mode_network" :>
    {<<"d", "e", "f", "a", "u", "l", "t", "_", "m", "o", "d", "e", "_", "n", "e", "t", "w", "o", "r", "k">>,
     <<"d", "e", "f", "a", "u", "l", "t", "m", "o", "d", "e", "n", "e", "t", "w", "o", "r", "k", "(", "d", "m", "n", ")">>,
     <<"d", "e", "f", "a", "u", "l", "t">>} @@
  "alpha_core" :>
    {<<"a", "l", "p", "h", "a", "_", "c", "o", "r", "e">>,
     <<"a", "l", "p", "h", "a", "c", "o", "r", "e">>,
     <<"a", "l", "p", "h", "a">>} @@
  "alpha" :>
    {<<"a", "l", "p", "h", "a">>,
     <<"a", "l", "p", "h", "a", "a", "r", "e", "a">>,
     <<"a", "l", "p", "h", "a">>} @@
  "beta" :>
    {<<"b", "e", "t", "a">>,
     <<"l", "i", "m", "b", "i", "c", "b", "e", "t", "a">>,
     <<"l", "i", "m", "b", "i", "c">>} @@
  "gamma" :>
    {<<"g", "a", "m", "m", "a">>,
     <<"g", "a", "m", "m", "a", "z", "o", "n", "e">>,
     <<"g", "a", "m", "m", "a">>}

\* needle is a prefix of hay
StartsWith(hay, needle) ==
  /\ Len(needle) <= Len(hay)
  /\ \A i \in 1..Len(needle) : hay[i] = needle[i]

RECURSIVE OccursIn(_, _)
\* needle occurs in hay: it is a prefix of hay or occurs in hay's tail
OccursIn(needle, hay) ==
  \/ StartsWith(hay, needle)
  \/ (Len(hay) > 0 /\ OccursIn(needle, Tail(hay)))

\* the catalog positions of the regions the name of mesh k matches
NameMatchSet(k) ==
  {i \in RegIndex :
     \E needle \in NameNeedles[Regs[i].id] : OccursIn(needle, LowerName[meshes[k].name])}

\* C18: the name tier gives a primitive the earliest region in catalog order
\* whose id, display name without whitespace, or first word of the display
\* name occurs in the lower-cased primitive name, and gives nothing when no
\* region matches (the primitive is then assigned by position or by index).
NameTierFirstMatch ==
  \A k \in MeshIndex :
    LET result == NameTier(Regs, ToLowerCase(StrChars[meshes[k].name]))
    IN  IF NameMatchSet(k) # {}
        THEN /\ result = Regs[SetMin(NameMatchSet(k))].id
             /\ meshRegionMap[k] = result
        ELSE /\ result = Null
             /\ meshRegionMap[k] =
                  IF CenterWithinSpatial(k) THEN NearestToCenter(k)
                  ELSE Regs[((k - 1) % Len(Regs)) + 1].id

\* a primitive whose name holds the first words of two display names,
\* assigned the region that comes first in the catalog, not the nearest
C18Witness ==
  /\ catalog = "shipped"
  /\ Len(meshes) = 1
  /\ meshes[1].name = "ventral_visual"
  /\ NameMatchSet(1) = {1, 4}
  /\ meshRegionMap[1] = "visual_network"
  /\ NearestToCenter(1) # "visual_network"

\* the region under the pointer by the last pointer-move, none after a
\* pointer-out or before any pointer-move
LastResolved == IF lastPoint = NoEvent THEN Null ELSE DirectResolve(lastPoint)

\* C19: a click calls onRegionClick exactly once, with the region hovered at
\* the click (the result of the last pointer-move resolution, not cleared by
\* a pointer-out since), and makes no call when the hover state is none or
\* when onRegionClick was not supplied.
ClickCallsBackWithHovered ==
  clickEvent.fired =>
    /\ hoveredRegion = LastResolved
    /\ clickEvent.calls =
         IF LastResolved # Null /\ clickEvent.supplied THEN <<LastResolved>> ELSE <<>>

\* a click after a pointer-move onto the limbic anchor while visual_network
\* is selected, with the callback supplied: one call, for limbic_network
C19Witness ==
  /\ clickEvent.fired /\ clickEvent.supplied
  /\ lastPoint = <<0, -5, 5>>
  /\ selectedRegion = "visual_network"
  /\ clickEvent.calls = <<"limbic_network">>

\* C20: a click on a main region sets the selected region to it, the selected
\* main region to its id and shows the sub-part view, from any state; a click
\* on a region that is not a main region sets the selected region and leaves
\* the selected main region and the view as they were.
RegionClickSelects ==
  [][(appEvent'.kind = "regionClick") =>
       /\ appSelectedRegion' = appEvent'.region
       /\ IF appEvent'.region.id \in SeqRange(AppCatalog.main)
          THEN selectedMainRegion' = appEvent'.region.id /\ showSubparts' = TRUE
          ELSE selectedMainRegion' = selectedMainRegion /\ showSubparts' = showSubparts
    ]_vars

\* a part clicked in the sub-part view of its region, reached through a
\* search result
C20Witness ==
  /\ appEvent.kind = "regionClick"
  /\ appEvent.region = Part("alpha_b")
  /\ appSelectedRegion = Part("alpha_b")
  /\ selectedMainRegion = "alpha"
  /\ showSubparts

\* the event handled last selected a region: a region click, a click on a
\* REGION search result, or the deferred selection of a PART search result
SelectionEvent ==
  \/ appEvent.kind = "regionClick"
  \/ appEvent.kind = "searchResultClick" /\ appEvent.region.searchType = "REGION"
  \/ appEvent.kind = "timeout"

OriginalEmissive == [of |-> "original", times |-> 10]

\* (variant: the primitives of other regions are not dimmed)
MaterialNoDim(k) ==
  LET region == meshRegionMap[k]
      isSelected == selectedRegion # Null /\ selectedRegion = region
  IN  IF isSelected
      THEN [color |-> [of |-> region, times |-> 12],
            emissive |-> [of |-> region, times |-> 5],
            opacity |-> 10, transparent |-> FALSE]
      ELSE [color |-> [of |-> region, times |-> 10],
            emissive |-> OriginalEmissive,
            opacity |-> 10, transparent |-> FALSE]

\* the material the useMemo builds for mesh k: a colour is a colour token
\* (a region's colour or a literal) times a factor in tenths, the opacity
\* is in tenths
Material(k) ==
  LET region == meshRegionMap[k]
      isSelected == selectedRegion # Null /\ selectedRegion = region
  IN  IF isSelected
      THEN [color |-> [of |-> region, times |-> 12],
            emissive |-> [of |-> region, times |-> 5],
            opacity |-> 10, transparent |-> FALSE]
      ELSE IF selectedRegion # Null
      THEN [color |-> [of |-> "#555555", times |-> 10],
            emissive |-> OriginalEmissive,
            opacity |-> 3, transparent |-> TRUE]
      ELSE [color |-> [of |-> region, times |-> 10],
            emissive |-> OriginalEmissive,
            opacity |-> 10, transparent |-> FALSE]

\* `materials`, recomputed when meshes, meshRegionMap or selectedRegion change
Materials == [k \in MeshIndex |-> Material(k)]

\* the three visual states of the material of mesh k
Highlighted(k) ==
  /\ Materials[k].color.of = meshRegionMap[k]
  /\ Materials[k].emissive.of = meshRegionMap[k]
  /\ Materials[k].opacity = 10
  /\ ~Materials[k].transparent

Dimmed(k) ==
  /\ Materials[k].color.of = "#555555"
  /\ Materials[k].emissive = OriginalEmissive
  /\ Materials[k].opacity = 3
  /\ Materials[k].transparent

DefaultLook(k) ==
  /\ Materials[k].color = [of |-> meshRegionMap[k], times |-> 10]
  /\ Materials[k].emissive = OriginalEmissive
  /\ Materials[k].opacity = 10
  /\ ~Materials[k].transparent

\* C22: every rendered primitive is in exactly one of three visual states:
\* highlighted exactly when a region is selected and is the primitive's
\* assigned region, dimmed when a region is selected and is another one,
\* default when no region is selected.
ThreeVisualStates ==
  View = "model" =>
    \A k \in MeshIndex :
      /\ Cardinality({s \in {"highlighted", "dimmed", "default"} :
                        \/ s = "highlighted" /\ Highlighted(k)
                        \/ s = "dimmed" /\ Dimmed(k)
                        \/ s = "default" /\ DefaultLook(k)}) = 1
      /\ Highlighted(k) <=> (selectedRegion # Null /\ selectedRegion = meshRegionMap[k])
      /\ (selectedRegion # Null /\ selectedRegion # meshRegionMap[k]) => Dimmed(k)
      /\ selectedRegion = Null => DefaultLook(k)

\* two rendered primitives of different regions, one of them selected: one
\* highlighted, the other dimmed
C22Witness ==
  /\ View = "model"
  /\ Len(meshes) = 2
  /\ selectedRegion = "limbic_network"
  /\ Dimmed(1)
  /\ Highlighted(2)

\* the main region whose parts array holds the part
ParentOf(partId) ==
  CHOOSE parent \in DOMAIN AppCatalog.parts : partId \in SeqRange(AppCatalog.parts[parent])

\* C23: in every state of App, if the selected region is a sub-part then the
\* sub-part view is shown and the selected main region is the part's parent,
\* also when Back, Clear or a region click comes between a click on a PART
\* search result and the deferred selection of the part.
SelectedPartHasParentView ==
  appSelectedRegion.type = "PART" =>
    /\ showSubparts
    /\ selectedMainRegion = ParentOf(appSelectedRegion.id)

\* C24: whenever a region is selected and the links are not marked as
\* loading, the links displayed are those fetched for the selected region or
\* none; and while the fetch issued for the selected region is pending the
\* links stay marked as loading, whatever other fetch settles meanwhile.
LinksBelongToSelection ==
  /\ (appSelectedRegion # NoRegion /\ ~loadingLinks) =>
       relevantLinks \in {<<>>, <<appSelectedRegion.id>>}
  /\ appSelectedRegion.id \in fetches => loadingLinks

\* C25: in every state of App the sub-part view is shown exactly when a main
\* region is selected.
SubpartViewIffMainRegion ==
  showSubparts <=> selectedMainRegion # Null

\* Back pressed during the delay of a PART search result, then the deferred
\* selection: the view is the main view although a part is selected
C25Witness ==
  /\ appEvent.kind = "timeout"
  /\ appSelectedRegion.type = "PART"
  /\ ~showSubparts
  /\ selectedMainRegion = Null

\* the corners of the canonical box [-2, 2]^3, in tenths
BoxCorners ==
  LET h == CharacteristicSize \div 2
  IN  {<<x, y, z>> : x \in {-h, h}, y \in {-h, h}, z \in {-h, h}}

\* the centre of mesh k lies in the canonical box
CenterInBox(k) ==
  \A a \in Axes :
    /\ Center2Num(k)[a] <= CharacteristicSize * meshes[k].den
    /\ -Center2Num(k)[a] <= CharacteristicSize * meshes[k].den

CenterPoint(k) == [num |-> Center2Num(k), den |-> 2 * meshes[k].den]

\* the centre of mesh k is nearer than the hover threshold to an anchor
CenterWithinHover(k) == MinCenterDistSq(k) < Sq(HoverThreshold * 2 * meshes[k].den)

\* what the scan and threshold test of handlePointerMove give for the local
\* point v (lines 207-237, after the division by the scale)
HoverAtLocalPoint(v) ==
  LET acc == ClosestScan(GetMainRegions(BrainStructure), v, 1, NoneYet)
  IN  IF WithinHover(acc, v) THEN acc.closest ELSE Null

\* the centre of mesh k has whole coordinates in tenths
CenterIsWhole(k) == \A a \in Axes : Center2Num(k)[a] % (2 * meshes[k].den) = 0

WholeCenter(k) == [a \in Axes |-> Center2Num(k)[a] \div (2 * meshes[k].den)]

\* C27: a primitive without a name match whose canonical centre c is nearer
\* than the hover threshold to some anchor is assigned at load time the
\* region pointer resolution gives for c (the first of the nearest regions in
\* catalog order on a tie); where c has whole coordinates, that is what
\* handlePointerMove resolves for the world point of c at the scale of the
\* state.
StaticAgreesWithHover ==
  \A k \in MeshIndex :
    (Unmatched(k) /\ CenterWithinHover(k)) =>
      /\ meshRegionMap[k] # Null
      /\ meshRegionMap[k] = HoverAtLocalPoint(CenterPoint(k))
      /\ meshRegionMap[k] = NearestToCenter(k)
      /\ CenterIsWhole(k) =>
           ResolvePointer(BrainStructure, WorldPoint(WholeCenter(k), scale), scale)
             = meshRegionMap[k]

\* a primitive without a name match whose centre is within the hover
\* threshold of two regions' shared anchor, nearest to both, and assigned
\* the first of them, which is not the region of its index
C27Witness ==
  /\ catalog = "fixture"
  /\ \E k \in MeshIndex :
       /\ Unmatched(k) /\ CenterWithinHover(k)
       /\ Cardinality({i \in RegIndex :
                         CenterDistSq(k, Regs[i].position) = MinCenterDistSq(k)}) > 1
       /\ meshRegionMap[k] = "alpha"
       /\ HoverAtLocalPoint(CenterPoint(k)) = "alpha"
       /\ meshRegionMap[k] # Regs[((k - 1) % Len(Regs)) + 1].id

====
